---- MODULE Spec2Model ----
(***************************************************************************)
(* Model of backend/main.py: the docker statistics cache (the background   *)
(* refresher and the /api/docker_stats endpoint) and the chat endpoint     *)
(* /api/ollama_chat with the session store behind it.                      *)
(*                                                                         *)
(* Coroutines are processes.  A process takes one step per awaited call;   *)
(* the lock of the cache has an explicit holder, so that a coroutine that  *)
(* holds it can be observed by the others.                                 *)
(***************************************************************************)
EXTENDS Integers, Sequences, FiniteSets, TLC

\* ---------------------------------------------------------------- bounds
\* Number of concurrent GET /api/docker_stats requests.
MaxReqs == 1
\* Largest number of containers client.containers.list returns.
MaxContainers == 1
\* Readings of time.time() are told apart up to this value (later ones saturate).
MaxTs == 1
\* Number of POST /api/ollama_chat requests (each served once, concurrently).
MaxTurns == 1
\* Number of chat turns completed before the ones observed (stored history).
MaxPast == 6
\* Largest number of rows of chat_sessions at which POST /api/sessions is served.
MaxSessions == 2
\* Number of POST /api/ollama_chat requests in flight at the same time.
MaxConcurrent == 2
\* Longest message needs_web_search is called on by itself.
MaxLen == 3
\* Calls of needs_web_search on one message that are told apart.
MaxCalls == 2
\* Number of subscribers of /ws/docker_stats.
MaxSubscribers == 2

\* ------------------------------------------------------------- processes
\* The background task _docker_stats_refresher (one, created at startup).
Refresher == 0
\* The in-flight docker_stats requests.
Reqs == 1..MaxReqs
\* The websocket_docker_stats handlers, one per live subscriber.
Broadcasters == { 0 - k : k \in 1..MaxSubscribers }
\* The handler of the specifications with one subscriber.
Broadcaster == -1
\* Everything that runs _collect_docker_stats.
Collectors == {Refresher} \cup Broadcasters \cup Reqs

VARIABLES
  docker_stats_cache,   \* _docker_stats_cache: the cached frame (a list)
  docker_stats_ts,      \* _docker_stats_ts: time of the last store, 0.0 at start
  docker_stats_lock,    \* _docker_stats_lock: "free" or who holds it
  pc,                   \* control point of every collector
  coll,                 \* the _collect_docker_stats call of a collector
  cacheRead,            \* docker_stats: the local `cache`
  resp,                 \* docker_stats: the response returned
  unreadable,           \* docker: the containers whose stats read raises
  lastGood,             \* history: the frame of the most recent successful store
  failStreak,           \* history: consecutive failed refresher attempts (0..2)
  intervalElapsed,      \* history: the refresher finished one sleep(15)
  inFlight,             \* history: the running collections of the cache path, oldest first
  cacheStale,           \* history: who is still collecting since before the cached frame's collection began
  recordOrder,          \* whether this behaviour keeps the two histories above
  ws_conn,              \* the WebSocket of each subscriber: none, open, gone, broken, closed
  ws_sent,              \* the last message send_json delivered on each
  nws_message,          \* the argument of the calls of needs_web_search on its own
  nws_result,           \* what the last of these calls returned
  nws_calls,            \* how many of these calls returned
  chat_sessions,        \* table chat_sessions; the id of a row is its index
  messages,             \* table messages, in insertion order
  dbnow,                \* NOW() of the database
  tpc,                  \* control point of every chat turn
  req,                  \* ollama_chat: message and session_id of the body `req`
  selected_model,       \* ollama_chat: the local `selected_model`
  conn,                 \* ollama_chat: the asyncpg connection
  web_info,             \* ollama_chat: the local `web_info`
  full_prompt,          \* ollama_chat: the local `full_prompt`
  gateway,              \* ollama_chat: the reply `resp` of the model gateway
  result,               \* ollama_chat: the returned dict
  steps,                \* history: the steps a turn has performed
  updatedBefore,        \* history: updated_at of the turn's session before it
  asked,                \* history: the session_id of the request as received
  searched,             \* history: what web_search returned to the turn
  sessions_listed,      \* the last response of GET /api/sessions
  messages_listed       \* the last response of GET /api/sessions/{id}/messages

cacheVars == <<docker_stats_cache, docker_stats_ts, lastGood>>
reqVars == <<cacheRead, resp>>
refVars == <<failStreak, intervalElapsed>>
\* The order in which the collections that may be stored began.
orderVars == <<inFlight, cacheStale, recordOrder>>
\* The WebSocket of the subscriber and the last message pushed on it.
wsVars == <<ws_conn, ws_sent>>
telVars == <<cacheVars, docker_stats_lock, pc, coll, reqVars, refVars, unreadable, wsVars, orderVars>>

\* The responses of the two listing endpoints.
apiVars == <<sessions_listed, messages_listed>>

\* The message needs_web_search was called on by itself, and its answers.
fnVars == <<nws_message, nws_result, nws_calls>>

chatVars == <<fnVars, chat_sessions, messages, dbnow, tpc, req, selected_model, conn, web_info, full_prompt,
              gateway, result, steps, updatedBefore, asked, searched, apiVars>>

vars == <<telVars, chatVars>>

\* ------------------------------------------------------------ telemetry
\* A slot of the gather whose container_stats coroutine has not returned yet.
NoEntry == [name |-> 0, kind |-> "pending", by |-> 0]
NoColl == [n |-> 0, res |-> <<>>]
\* Nothing pushed to the subscriber yet.
NoPush == [pushed |-> FALSE, containers |-> <<>>]
\* A response; `streak` is history: failStreak when the cache was read.
NoResp == [status |-> "none", containers |-> <<>>, cached |-> FALSE, streak |-> 0]

\* The dict container_stats returns for container i: the stats dict, or the
\* {name, status, error} dict of its except branch.  `by` names the collector
\* whose _collect_docker_stats call produced the dict.
StatsEntry(i, c) == [name |-> i, kind |-> "stats", by |-> c]
ErrorEntry(i, c) == [name |-> i, kind |-> "error", by |-> c]

\* container_stats(c) for container i, run for collector c.
container_stats(i, c) ==
  IF i \in unreadable THEN ErrorEntry(i, c) ELSE StatsEntry(i, c)

GatherNotAwaited(c) == TRUE

\* A gather whose result leaves out the containers whose stats read failed.
GatherDropsErrors(c) == SelectSeq(coll[c].res, LAMBDA e : e.kind # "error")

\* `await asyncio.gather(...)` returns: every container_stats has returned.
GatherDone(c) == \A i \in 1..coll[c].n : coll[c].res[i].kind # "pending"

\* The list asyncio.gather returns (listing order).
GatherResult(c) == coll[c].res

\* A collector is inside _collect_docker_stats.
Collecting(c) == pc[c] \in {"listing", "gathering"}

\* time.time() read after the reading `ts`: a later instant.
TimeAfter(ts) == IF ts < MaxTs THEN ts + 1 ELSE MaxTs

\* History of the order of the collections of the refresher and of the
\* requests, kept in the behaviours that start with recordOrder.
\* `data = await _collect_docker_stats()` begins for collector c: c is the
\* youngest collection in flight.
CollectionBegins(c) ==
  /\ inFlight' = IF recordOrder THEN Append(inFlight, c) ELSE inFlight
  /\ UNCHANGED <<cacheStale, recordOrder>>

\* The collections in flight without the one of c.
Others(c) == SelectSeq(inFlight, LAMBDA o : o # c)

\* The collections in flight that began before the one of c.
BeganBefore(c) == { inFlight[i] : i \in { j \in 1..Len(inFlight) :
                      \E k \in (j+1)..Len(inFlight) : inFlight[k] = c } }

\* The collection of c raised: nothing is stored.
CollectionRaises(c) ==
  /\ inFlight' = Others(c)
  /\ cacheStale' = cacheStale \ {c}
  /\ UNCHANGED recordOrder

\* `_docker_stats_cache = data` by collector c: the cached frame is now the
\* one of c's collection, and the collections that began before it and still
\* run are older than the cached frame.
CollectionStored(c) ==
  /\ inFlight' = Others(c)
  /\ cacheStale' = BeganBefore(c)
  /\ UNCHANGED recordOrder

\* The state at process start; `order` says whether the order of the
\* collections is recorded.
TelState(unr, order) ==
  /\ docker_stats_cache = <<>>
  /\ docker_stats_ts = 0
  /\ docker_stats_lock = "free"
  /\ pc = [c \in Collectors |-> IF c = Refresher THEN "unstarted" ELSE "idle"]
  /\ coll = [c \in Collectors |-> NoColl]
  /\ cacheRead = [r \in Reqs |-> <<>>]
  /\ resp = [r \in Reqs |-> NoResp]
  /\ lastGood = <<>>
  /\ failStreak = 0
  /\ intervalElapsed = FALSE
  /\ unreadable = unr
  /\ ws_conn = [b \in Broadcasters |-> "none"]
  /\ ws_sent = [b \in Broadcasters |-> NoPush]
  /\ inFlight = <<>>
  /\ cacheStale = {}
  /\ recordOrder = order

TelStart(unr) == TelState(unr, FALSE)

TelInit == \E unr \in SUBSET (1..MaxContainers) : TelStart(unr)

\* startup_event: asyncio.create_task(_docker_stats_refresher()).
startup_event ==
  /\ pc[Refresher] = "unstarted"
  /\ pc' = [pc EXCEPT ![Refresher] = "loop"]
  /\ UNCHANGED <<chatVars, orderVars, wsVars, cacheVars, docker_stats_lock, coll, reqVars, refVars, unreadable>>

Started == pc[Refresher] # "unstarted"

\* _docker_stats_refresher, `while True:` / `data = await _collect_docker_stats()`:
\* the call begins (DockerClient(...), then containers.list in a thread).
RefresherBegin ==
  /\ pc[Refresher] = "loop"
  /\ pc' = [pc EXCEPT ![Refresher] = "listing"]
  /\ coll' = [coll EXCEPT ![Refresher] = NoColl]
  /\ CollectionBegins(Refresher)
  /\ UNCHANGED <<chatVars, wsVars, cacheVars, docker_stats_lock, reqVars, refVars, unreadable>>

\* How many containers client.containers.list may return to a collector.  The
\* broadcaster, which shares no state with the cache, is explored with one
\* container more than the collectors of the cache path.
Listed(c) == IF c = Broadcaster THEN MaxContainers + 1 ELSE MaxContainers

\* _collect_docker_stats: client.containers.list returns n containers; the
\* gather of the n container_stats coroutines starts.
CollectList(c) ==
  /\ pc[c] = "listing"
  /\ \E n \in 0..Listed(c) :
       coll' = [coll EXCEPT ![c] = [n |-> n, res |-> [i \in 1..n |-> NoEntry]]]
  /\ pc' = [pc EXCEPT ![c] = "gathering"]
  /\ UNCHANGED <<chatVars, orderVars, wsVars, cacheVars, docker_stats_lock, reqVars, refVars, unreadable>>

\* _collect_docker_stats: one container_stats coroutine of the gather returns.
ContainerStats(c) ==
  /\ pc[c] = "gathering"
  /\ \E i \in 1..coll[c].n :
       /\ coll[c].res[i].kind = "pending"
       /\ coll' = [coll EXCEPT ![c].res[i] = container_stats(i, c)]
  /\ UNCHANGED <<chatVars, orderVars, wsVars, cacheVars, docker_stats_lock, pc, reqVars, refVars, unreadable>>

RefresherFailClears ==
  /\ pc[Refresher] = "listing"
  /\ pc' = [pc EXCEPT ![Refresher] = "sleep"]
  /\ coll' = [coll EXCEPT ![Refresher] = NoColl]
  /\ failStreak' = IF failStreak < 2 THEN failStreak + 1 ELSE 2
  /\ docker_stats_cache' = <<>>
  /\ CollectionRaises(Refresher)
  /\ UNCHANGED <<chatVars, wsVars, docker_stats_ts, lastGood, docker_stats_lock, reqVars,
                 intervalElapsed, unreadable>>

RefresherFailExits ==
  /\ pc[Refresher] = "listing"
  /\ pc' = [pc EXCEPT ![Refresher] = "exited"]
  /\ coll' = [coll EXCEPT ![Refresher] = NoColl]
  /\ failStreak' = IF failStreak < 2 THEN failStreak + 1 ELSE 2
  /\ CollectionRaises(Refresher)
  /\ UNCHANGED <<chatVars, wsVars, cacheVars, docker_stats_lock, reqVars, intervalElapsed, unreadable>>

\* _docker_stats_refresher: the collection raised (docker unreachable);
\* `except Exception` prints and the loop goes on to asyncio.sleep(15).
RefresherFail ==
  /\ pc[Refresher] = "listing"
  /\ pc' = [pc EXCEPT ![Refresher] = "sleep"]
  /\ coll' = [coll EXCEPT ![Refresher] = NoColl]
  /\ failStreak' = IF failStreak < 2 THEN failStreak + 1 ELSE 2
  /\ CollectionRaises(Refresher)
  /\ UNCHANGED <<chatVars, wsVars, cacheVars, docker_stats_lock, reqVars, intervalElapsed, unreadable>>

\* _docker_stats_refresher: gather returned, `async with _docker_stats_lock`
\* acquires the lock.
RefresherAcquire ==
  /\ pc[Refresher] = "gathering"
  /\ GatherDone(Refresher)
  /\ docker_stats_lock = "free"
  /\ docker_stats_lock' = "refresher"
  /\ pc' = [pc EXCEPT ![Refresher] = "store"]
  /\ UNCHANGED <<chatVars, orderVars, wsVars, cacheVars, coll, reqVars, refVars, unreadable>>

\* _docker_stats_refresher: `_docker_stats_cache = data`, `_docker_stats_ts =
\* time.time()`, the lock is released, then asyncio.sleep(15) begins.
RefresherStore ==
  /\ pc[Refresher] = "store"
  /\ docker_stats_cache' = GatherResult(Refresher)
  /\ docker_stats_ts' = TimeAfter(docker_stats_ts)
  /\ docker_stats_lock' = "free"
  /\ lastGood' = GatherResult(Refresher)
  /\ failStreak' = 0
  /\ coll' = [coll EXCEPT ![Refresher] = NoColl]
  /\ pc' = [pc EXCEPT ![Refresher] = "sleep"]
  /\ CollectionStored(Refresher)
  /\ UNCHANGED <<chatVars, wsVars, reqVars, intervalElapsed, unreadable>>

\* _docker_stats_refresher: asyncio.sleep(15) returns; next iteration.
RefresherWake ==
  /\ pc[Refresher] = "sleep"
  /\ pc' = [pc EXCEPT ![Refresher] = "loop"]
  /\ intervalElapsed' = TRUE
  /\ UNCHANGED <<chatVars, orderVars, wsVars, cacheVars, docker_stats_lock, coll, reqVars, failStreak, unreadable>>

\* GET /api/docker_stats arrives (served once the application has started).
DockerStatsCall(r) ==
  /\ Started
  /\ pc[r] \in {"idle", "done"}
  /\ pc' = [pc EXCEPT ![r] = "acquire"]
  /\ resp' = [resp EXCEPT ![r] = NoResp]
  /\ coll' = [coll EXCEPT ![r] = NoColl]
  /\ cacheRead' = [cacheRead EXCEPT ![r] = <<>>]
  /\ UNCHANGED <<chatVars, orderVars, wsVars, cacheVars, docker_stats_lock, refVars, unreadable>>

\* docker_stats: `async with _docker_stats_lock:` acquires the lock.
DockerStatsAcquire(r) ==
  /\ pc[r] = "acquire"
  /\ docker_stats_lock = "free"
  /\ docker_stats_lock' = "request"
  /\ pc' = [pc EXCEPT ![r] = "read"]
  /\ UNCHANGED <<chatVars, orderVars, wsVars, cacheVars, coll, reqVars, refVars, unreadable>>

ServeNever(cache) == FALSE

\* docker_stats: `if cache:` -- a non-empty list is served from the cache.
ServeFromCache(cache) == cache # <<>>

DockerStatsReadKeepsLock(r) ==
  /\ pc[r] = "read"
  /\ cacheRead' = [cacheRead EXCEPT ![r] = docker_stats_cache]
  /\ IF ServeFromCache(docker_stats_cache)
       THEN /\ resp' = [resp EXCEPT ![r] = [status |-> "ok",
                               containers |-> docker_stats_cache, cached |-> TRUE,
                               streak |-> failStreak]]
            /\ pc' = [pc EXCEPT ![r] = "done"]
            /\ UNCHANGED orderVars
            /\ docker_stats_lock' = "free"
       ELSE /\ resp' = resp
            /\ pc' = [pc EXCEPT ![r] = "listing"]
            /\ CollectionBegins(r)
            /\ docker_stats_lock' = docker_stats_lock
  /\ UNCHANGED <<chatVars, wsVars, cacheVars, coll, refVars, unreadable>>

\* docker_stats: `cache = _docker_stats_cache` under the lock, the lock is
\* released; `if cache:` returns the cached response, otherwise the request
\* goes on to `data = await _collect_docker_stats()`.
DockerStatsRead(r) ==
  /\ pc[r] = "read"
  /\ docker_stats_lock' = "free"
  /\ cacheRead' = [cacheRead EXCEPT ![r] = docker_stats_cache]
  /\ IF ServeFromCache(docker_stats_cache)
       THEN /\ resp' = [resp EXCEPT ![r] = [status |-> "ok",
                               containers |-> docker_stats_cache, cached |-> TRUE,
                               streak |-> failStreak]]
            /\ pc' = [pc EXCEPT ![r] = "done"]
            /\ UNCHANGED orderVars
       ELSE /\ resp' = resp
            /\ pc' = [pc EXCEPT ![r] = "listing"]
            /\ CollectionBegins(r)
  /\ UNCHANGED <<chatVars, wsVars, cacheVars, coll, refVars, unreadable>>

\* docker_stats: the collection raised; the except branch returns the error.
DockerStatsFail(r) ==
  /\ pc[r] = "listing"
  /\ resp' = [resp EXCEPT ![r] = [status |-> "error", containers |-> <<>>,
                                  cached |-> FALSE, streak |-> 0]]
  /\ pc' = [pc EXCEPT ![r] = "done"]
  /\ CollectionRaises(r)
  /\ UNCHANGED <<chatVars, wsVars, cacheVars, docker_stats_lock, coll, cacheRead, refVars, unreadable>>

\* docker_stats: gather returned; the second `async with _docker_stats_lock`.
DockerStatsAcquireStore(r) ==
  /\ pc[r] = "gathering"
  /\ GatherDone(r)
  /\ docker_stats_lock = "free"
  /\ docker_stats_lock' = "request"
  /\ pc' = [pc EXCEPT ![r] = "store"]
  /\ UNCHANGED <<chatVars, orderVars, wsVars, cacheVars, coll, reqVars, refVars, unreadable>>

ColdResponseStale(r) == cacheRead[r]

\* docker_stats: the containers of the cold-path response: `data`.
ColdResponse(r) == GatherResult(r)

\* docker_stats: `_docker_stats_cache = data`, the timestamp, the release, and
\* the response {'status': 'ok', 'containers': data, 'cached': False}.
DockerStatsStore(r) ==
  /\ pc[r] = "store"
  /\ docker_stats_cache' = GatherResult(r)
  /\ docker_stats_ts' = TimeAfter(docker_stats_ts)
  /\ docker_stats_lock' = "free"
  /\ lastGood' = GatherResult(r)
  /\ resp' = [resp EXCEPT ![r] = [status |-> "ok", containers |-> ColdResponse(r),
                                  cached |-> FALSE, streak |-> 0]]
  /\ pc' = [pc EXCEPT ![r] = "done"]
  /\ CollectionStored(r)
  /\ UNCHANGED <<chatVars, wsVars, coll, cacheRead, refVars, unreadable>>

\* ----------------------------------------------------------------- chat
\* Text is a sequence of one-character strings.

\* The list search_keywords of needs_web_search.
search_keywords == <<
  <<"w", "h", "e", "n", " ", "i", "s">>,
  <<"n", "e", "x", "t", " ", "g", "a", "m", "e">>,
  <<"s", "c", "h", "e", "d", "u", "l", "e">>,
  <<"l", "i", "v", "e">>,
  <<"c", "u", "r", "r", "e", "n", "t">>,
  <<"t", "o", "d", "a", "y">>,
  <<"t", "o", "m", "o", "r", "r", "o", "w">>,
  <<"l", "a", "t", "e", "s", "t">>,
  <<"n", "e", "w", "s">>,
  <<"w", "e", "a", "t", "h", "e", "r">>,
  <<"s", "c", "o", "r", "e">>,
  <<"r", "e", "s", "u", "l", "t">>,
  <<"f", "i", "x", "t", "u", "r", "e">>,
  <<"m", "a", "t", "c", "h">>,
  <<"b", "a", "r", "c", "e", "l", "o", "n", "a">>,
  <<"r", "e", "a", "l", " ", "m", "a", "d", "r", "i", "d">>,
  <<"m", "a", "n", "c", "h", "e", "s", "t", "e", "r">>,
  <<"c", "h", "e", "l", "s", "e", "a">>,
  <<"a", "r", "s", "e", "n", "a", "l">>,
  <<"l", "i", "v", "e", "r", "p", "o", "o", "l">>,
  <<"c", "h", "a", "m", "p", "i", "o", "n", "s", " ", "l", "e", "a", "g", "u", "e">>,
  <<"p", "r", "e", "m", "i", "e", "r", " ", "l", "e", "a", "g", "u", "e">>,
  <<"l", "a", " ", "l", "i", "g", "a">>,
  <<"s", "e", "r", "i", "e", " ", "a">>,
  <<"b", "u", "n", "d", "e", "s", "l", "i", "g", "a">>,
  <<"w", "o", "r", "l", "d", " ", "c", "u", "p">>,
  <<"e", "u", "r", "o">>,
  <<"o", "l", "y", "m", "p", "i", "c", "s">>,
  <<"n", "b", "a">>,
  <<"n", "f", "l">>,
  <<"m", "l", "b">>,
  <<"n", "h", "l">>,
  <<"s", "t", "o", "c", "k", " ", "m", "a", "r", "k", "e", "t">>,
  <<"s", "t", "o", "c", "k">>,
  <<"m", "a", "r", "k", "e", "t">>,
  <<"t", "r", "a", "d", "i", "n", "g">>,
  <<"f", "i", "n", "a", "n", "c", "e">>,
  <<"f", "i", "n", "a", "n", "c", "i", "a", "l">>,
  <<"n", "a", "s", "d", "a", "q">>,
  <<"n", "y", "s", "e">>,
  <<"d", "o", "w", " ", "j", "o", "n", "e", "s">>,
  <<"s", "&", "p">>,
  <<"f", "t", "s", "e">>,
  <<"c", "u", "r", "r", "e", "n", "c", "y">>,
  <<"f", "o", "r", "e", "x">>,
  <<"a", "i", " ", "n", "e", "w", "s">>,
  <<"a", "r", "t", "i", "f", "i", "c", "i", "a", "l", " ", "i", "n", "t", "e", "l", "l", "i", "g", "e", "n", "c", "e">>,
  <<"t", "e", "c", "h", " ", "n", "e", "w", "s">>,
  <<"t", "e", "c", "h", "n", "o", "l", "o", "g", "y">>,
  <<"c", "r", "y", "p", "t", "o">>,
  <<"b", "i", "t", "c", "o", "i", "n">>,
  <<"e", "t", "h", "e", "r", "e", "u", "m">>,
  <<"b", "l", "o", "c", "k", "c", "h", "a", "i", "n">>,
  <<"w", "h", "a", "t", " ", "i", "s">>,
  <<"t", "e", "l", "l", " ", "m", "e", " ", "a", "b", "o", "u", "t">>,
  <<"h", "o", "w", " ", "i", "s">>,
  <<"w", "h", "a", "t", " ", "a", "r", "e">>,
  <<"c", "u", "r", "r", "e", "n", "t">>,
  <<"l", "a", "t", "e", "s", "t">>,
  <<"r", "e", "c", "e", "n", "t">>,
  <<"n", "o", "w">>,
  <<"t", "o", "d", "a", "y">>,
  <<"t", "h", "i", "s", " ", "w", "e", "e", "k">>,
  <<"t", "h", "i", "s", " ", "m", "o", "n", "t", "h">> >>

UpperCase == <<"A", "B", "C", "D", "E", "F", "G", "H", "I", "J", "K", "L", "M", "N", "O", "P", "Q", "R", "S", "T", "U", "V", "W", "X", "Y", "Z">>
LowerCase == <<"a", "b", "c", "d", "e", "f", "g", "h", "i", "j", "k", "l", "m", "n", "o", "p", "q", "r", "s", "t", "u", "v", "w", "x", "y", "z">>

\* str.lower() on one character.
LowerChar(ch) ==
  IF \E k \in 1..Len(UpperCase) : UpperCase[k] = ch
    THEN LowerCase[CHOOSE k \in 1..Len(UpperCase) : UpperCase[k] = ch]
    ELSE ch

\* A lowering that leaves the message as it is.
LowerNot(s) == s

\* message.lower()
Lower(s) == [i \in 1..Len(s) |-> LowerChar(s[i])]

\* `keyword in message_lower`: substring test.
Contains(s, sub) ==
  \E i \in 0..(Len(s) - Len(sub)) : SubSeq(s, i + 1, i + Len(sub)) = sub

\* needs_web_search(message)
needs_web_search(message) ==
  LET message_lower == Lower(message)
  IN \E k \in 1..Len(search_keywords) : Contains(message_lower, search_keywords[k])

\* req.session_id is None.
NoSession == 0
\* A session_id that names no row of chat_sessions (ids are random UUIDs).
DanglingSession == -1
\* The LIMIT of the context query.
ContextLimit == 10

Turns == 1..MaxTurns

\* Request bodies: message texts, one without and one with a search keyword.
UserMessages == { <<"H", "i">>, <<"N", "O", "W">> }
\* req.model: the slow model, or none given.
RequestModels == { "llama3.1:latest", "None" }

\* web_search(query) returns results, the no-data sentinel text, or the text
\* of its except branch.
WebOutcomes == { <<"Summary">>, <<"WEB_SEARCH_NO_CURRENT_DATA">>, <<"Search error">> }

\* A model name the gateway does not know (test_chat_endpoint_invalid_model).
InvalidModel == "invalid-model"
\* The models the gateway serves.
ServedModels == { "llama3.1:latest", "mistral:7b" }

\* HTTP statuses of POST /api/generate for a model the gateway serves.
StatusCodes == { 200, 500 }
\* HTTP statuses of POST /api/generate for the model named: the gateway
\* answers 404 for a model it does not know.
StatusCodesFor(model) == IF model \in ServedModels THEN StatusCodes ELSE { 404 }
\* resp.text of a non-success reply.
ErrorBody(status) == IF status = 500 THEN <<"internal error">> ELSE <<"not found">>
\* str(e) of the exceptions the httpx call raises.
GatewayExceptions == { <<"ReadTimeout">> }

\* resp.json() of a success reply: text and the nanosecond counters.  One
\* reply reports no total duration (its other counters set), the other a
\* total, a prompt evaluation time and a generation time of 0.
GatewayData == {
  [response |-> <<"a">>, total_duration |-> 0, load_duration |-> 250000000,
   prompt_eval_count |-> 2, prompt_eval_duration |-> 500000000,
   eval_count |-> 3, eval_duration |-> 1500000000],
  [response |-> <<"a">>, total_duration |-> 2000000000, load_duration |-> 250000000,
   prompt_eval_count |-> 2, prompt_eval_duration |-> 500000000,
   eval_count |-> 3, eval_duration |-> 0] }

NoData == [response |-> <<>>, total_duration |-> 0, load_duration |-> 0,
           prompt_eval_count |-> 0, prompt_eval_duration |-> 0,
           eval_count |-> 0, eval_duration |-> 0]
NoGateway == [kind |-> "none", status |-> 0, text |-> <<>>, data |-> NoData]
NoReq == [message |-> <<>>, session_id |-> NoSession]
\* No live value of the local selected_model.
NoModel == ""
\* No dict returned yet.  `keys` are the keys of the returned dict.
NoResult == [status |-> "none", response |-> <<>>, session_id |-> NoSession,
             error |-> <<>>, keys |-> {}]

\* Nanoseconds in a second: the divisor 1_000_000_000.
NsPerSecond == 1000000000

RECURSIVE GCD(_, _)
GCD(a, b) == IF b = 0 THEN a ELSE GCD(b, a % b)

\* The number n / d (d > 0) in lowest terms; Python's floats are taken as exact.
Frac(n, d) == LET g == GCD(n, d) IN [num |-> n \div g, den |-> d \div g]

\* The number 0.
Zero == [num |-> 0, den |-> 1]

\* `x / 1_000_000_000`: nanoseconds to seconds.
Seconds(ns) == Frac(ns, NsPerSecond)

\* `count / duration_s`
Quotient(count, duration_s) == Frac(count * duration_s.den, duration_s.num)

RateUnguarded(count, duration_s) == Quotient(count, duration_s)

\* `count / duration_s if duration_s > 0 else 0`
Rate(count, duration_s) ==
  IF duration_s.num > 0 THEN Quotient(count, duration_s) ELSE Zero

\* performance_json = None.
NoPerf == [present |-> FALSE, total_duration |-> Zero, load_duration |-> Zero,
           prompt_eval_count |-> 0, prompt_eval_duration |-> Zero,
           eval_count |-> 0, eval_duration |-> Zero,
           prompt_rate |-> Zero, eval_rate |-> Zero]

\* performance_json of ollama_chat: None unless total_duration > 0, else the
\* durations in seconds, the counts and the two rates.
PerformanceJson(data) ==
  IF data.total_duration > 0
    THEN [present |-> TRUE,
          total_duration |-> Seconds(data.total_duration),
          load_duration |-> Seconds(data.load_duration),
          prompt_eval_count |-> data.prompt_eval_count,
          prompt_eval_duration |-> Seconds(data.prompt_eval_duration),
          eval_count |-> data.eval_count,
          eval_duration |-> Seconds(data.eval_duration),
          prompt_rate |-> Rate(data.prompt_eval_count, Seconds(data.prompt_eval_duration)),
          eval_rate |-> Rate(data.eval_count, Seconds(data.eval_duration))]
    ELSE NoPerf

\* selected_model = req.model or "mistral:7b"
SelectedModel(model) == IF model = "None" THEN "mistral:7b" ELSE model

\* The total timeout of the httpx client, by model.
GatewayTimeout(model) == IF model = "llama3.1:latest" THEN 300 ELSE 60

\* The FOREIGN KEY of messages.session_id: the row exists.
SessionExists(sid) == sid \in 1..Len(chat_sessions)

\* Indexes of the rows of `messages` of one session, in created_at order.
SessionRows(sid) == { i \in 1..Len(messages) : messages[i].session_id = sid }

RECURSIVE RowsDesc(_)
\* ORDER BY created_at DESC over a set of row indexes.
RowsDesc(rows) ==
  IF rows = {} THEN <<>>
  ELSE LET newest == CHOOSE i \in rows :
                       \A j \in rows : messages[j].created_at <= messages[i].created_at
       IN <<newest>> \o RowsDesc(rows \ {newest})

\* A context query without its WHERE clause: the latest rows of any session.
ContextQueryAllSessions(sid) ==
  LET desc == RowsDesc(1..Len(messages))
      n == IF Len(desc) < ContextLimit THEN Len(desc) ELSE ContextLimit
  IN [k \in 1..n |-> [role |-> messages[desc[k]].role,
                      content |-> messages[desc[k]].content]]

\* The context query: SELECT content, role ... ORDER BY created_at DESC LIMIT 10.
ContextQuery(sid) ==
  LET desc == RowsDesc(SessionRows(sid))
      n == IF Len(desc) < ContextLimit THEN Len(desc) ELSE ContextLimit
  IN [k \in 1..n |-> [role |-> messages[desc[k]].role,
                      content |-> messages[desc[k]].content]]

ReversedNot(s) == s

\* reversed(context_messages)
Reversed(s) == [k \in 1..Len(s) |-> s[Len(s) + 1 - k]]

\* msg['role'].upper()
RoleUpper(role) == IF role = "user" THEN "USER" ELSE "AI"

\* The context block: header, one "ROLE: content" line per message, trailer.
ContextBlock(context_messages) ==
  IF context_messages = <<>> THEN <<>>
  ELSE <<[part |-> "Previous conversation:", role |-> "", text |-> <<>>]>>
       \o [k \in 1..Len(context_messages) |->
             [part |-> "line", role |-> RoleUpper(Reversed(context_messages)[k].role),
              text |-> Reversed(context_messages)[k].content]]
       \o <<[part |-> "Current conversation:", role |-> "", text |-> <<>>]>>

\* web_info = f"\n[Web Search Results: {web_info}]\n", or "" without a search.
WebBlock(found) == <<[part |-> "Web Search Results", role |-> "", text |-> found]>>

\* A prompt with the web block put before the context block.
FullPromptWebFirst(context_messages, web, message) ==
  web \o ContextBlock(context_messages)
    \o <<[part |-> "line", role |-> "USER", text |-> message],
         [part |-> "ASSISTANT:", role |-> "", text |-> <<>>]>>

\* full_prompt = f"{context}{web_info}USER: {req.message}\nASSISTANT:"
FullPrompt(context_messages, web, message) ==
  ContextBlock(context_messages) \o web
    \o <<[part |-> "line", role |-> "USER", text |-> message],
         [part |-> "ASSISTANT:", role |-> "", text |-> <<>>]>>

\* The caller of POST /api/sessions, as the `by` of a chat_sessions row.
SessionsEndpoint == 0

\* create_session: INSERT INTO chat_sessions (title) ... RETURNING id, done
\* `n` times on the empty table.
create_session(n) ==
  [k \in 1..n |-> [created_at |-> k, updated_at |-> k, by |-> SessionsEndpoint]]

\* No response of a listing endpoint yet.
NoListing == [status |-> "none", session_id |-> NoSession, rows |-> <<>>]

\* The store holds the tables `h`; no chat turn has arrived.
StoreState(h, turns) ==
  /\ chat_sessions = h.sessions
  /\ messages = h.messages
  /\ dbnow = h.now
  /\ tpc = [t \in turns |-> "idle"]
  /\ req = [t \in turns |-> NoReq]
  /\ selected_model = [t \in turns |-> NoModel]
  /\ conn = [t \in turns |-> "none"]
  /\ web_info = [t \in turns |-> <<>>]
  /\ full_prompt = [t \in turns |-> <<>>]
  /\ gateway = [t \in turns |-> NoGateway]
  /\ result = [t \in turns |-> NoResult]
  /\ steps = [t \in turns |-> <<>>]
  /\ updatedBefore = [t \in turns |-> 0]
  /\ asked = [t \in turns |-> NoSession]
  /\ searched = [t \in turns |-> <<>>]
  /\ sessions_listed = NoListing
  /\ messages_listed = NoListing

\* needs_web_search has not been called on its own.
NoAnswer == "none"
KeywordIdle ==
  /\ nws_message = <<>>
  /\ nws_result = NoAnswer
  /\ nws_calls = 0

\* The tables hold h, no request is in flight.
ChatStoredFor(h, turns) == StoreState(h, turns) /\ KeywordIdle

\* The same for the turns of the single-request specifications.
ChatStored(h) == ChatStoredFor(h, Turns)

\* The tables after init_db and n calls of POST /api/sessions; no chat turn
\* has arrived.
ChatTables(n) ==
  ChatStored([sessions |-> create_session(n), messages |-> <<>>, now |-> n + 1])

\* The chat store is empty or holds one session created through the endpoint.
ChatInit == \E n \in {0, 1} : ChatTables(n)

\* The request to the gateway is over: selected_model, web_info and
\* full_prompt are not read again.
DropPrompt(t) ==
  /\ selected_model' = [selected_model EXCEPT ![t] = NoModel]
  /\ web_info' = [web_info EXCEPT ![t] = <<>>]
  /\ full_prompt' = [full_prompt EXCEPT ![t] = <<>>]

\* The handler returns: its locals are gone.
DropLocals(t) ==
  /\ req' = [req EXCEPT ![t] = NoReq]
  /\ DropPrompt(t)

\* POST /api/ollama_chat arrives with a request body whose message, model and
\* session_id are taken from the given sets.
ChatCallWith(t, texts, models, sids) ==
  /\ tpc[t] = "idle"
  /\ \E m \in texts, model \in models, sid \in sids :
       /\ req' = [req EXCEPT ![t] = [message |-> m, session_id |-> sid]]
       /\ asked' = [asked EXCEPT ![t] = sid]
       /\ selected_model' = [selected_model EXCEPT ![t] = SelectedModel(model)]
       /\ updatedBefore' = [updatedBefore EXCEPT ![t] =
            IF SessionExists(sid) THEN chat_sessions[sid].updated_at ELSE 0]
  /\ tpc' = [tpc EXCEPT ![t] = "connect"]
  /\ UNCHANGED <<telVars, fnVars, apiVars, searched, chat_sessions, messages, dbnow, conn, web_info,
                 full_prompt, gateway, result, steps>>

\* POST /api/ollama_chat arrives with any request body.
ChatCall(t) ==
  ChatCallWith(t, UserMessages, RequestModels,
               {NoSession, DanglingSession} \cup (1..Len(chat_sessions)))

ChatConnectAlwaysCreates(t) ==
  /\ tpc[t] = "connect"
  /\ conn' = [conn EXCEPT ![t] = "open"]
  /\ tpc' = [tpc EXCEPT ![t] = "session"]
  /\ UNCHANGED <<telVars, fnVars, apiVars, asked, searched, selected_model, chat_sessions, messages, dbnow,
                 req, web_info, full_prompt, gateway, result, steps, updatedBefore>>

\* `conn = await asyncpg.connect(DATABASE_URL)` succeeds.
ChatConnect(t) ==
  /\ tpc[t] = "connect"
  /\ conn' = [conn EXCEPT ![t] = "open"]
  /\ tpc' = [tpc EXCEPT ![t] = IF req[t].session_id = NoSession THEN "session" ELSE "user"]
  /\ UNCHANGED <<telVars, fnVars, apiVars, asked, searched, selected_model, chat_sessions, messages, dbnow, req, web_info,
                 full_prompt, gateway, result, steps, updatedBefore>>

\* The outer `except Exception as e: return {"status": "error", ...}`.
ErrorResult(t, text) ==
  [status |-> "error", response |-> <<>>, session_id |-> NoSession, error |-> text,
   keys |-> {"status", "error"}]

\* asyncpg.connect raises (store unreachable).
ChatConnectFail(t) ==
  /\ tpc[t] = "connect"
  /\ result' = [result EXCEPT ![t] = ErrorResult(t, <<"connection refused">>)]
  /\ tpc' = [tpc EXCEPT ![t] = "done"]
  /\ DropLocals(t)
  /\ UNCHANGED <<telVars, fnVars, apiVars, asked, searched, chat_sessions, messages, dbnow, conn, gateway, steps,
                 updatedBefore>>

\* A statement on the open connection raises (connection lost).
ChatStatementFail(t) ==
  /\ tpc[t] \in {"session", "user", "context", "ai", "touch"}
  /\ result' = [result EXCEPT ![t] = ErrorResult(t, <<"connection lost">>)]
  /\ tpc' = [tpc EXCEPT ![t] = "done"]
  /\ DropLocals(t)
  /\ UNCHANGED <<telVars, fnVars, apiVars, asked, searched, chat_sessions, messages, dbnow, conn, gateway, steps,
                 updatedBefore>>

\* `if not req.session_id:` INSERT INTO chat_sessions ... RETURNING id.
ChatCreateSession(t) ==
  /\ tpc[t] = "session"
  /\ chat_sessions' = Append(chat_sessions,
       [created_at |-> dbnow, updated_at |-> dbnow, by |-> t])
  /\ req' = [req EXCEPT ![t].session_id = Len(chat_sessions) + 1]
  /\ updatedBefore' = [updatedBefore EXCEPT ![t] = dbnow]
  /\ dbnow' = dbnow + 1
  /\ tpc' = [tpc EXCEPT ![t] = "user"]
  /\ UNCHANGED <<telVars, fnVars, apiVars, asked, searched, selected_model, messages, conn, web_info, full_prompt, gateway,
                 result, steps>>

\* An INSERT of the user message on a table without the foreign key: any
\* session_id is stored.
ChatStoreUserUnchecked(t) ==
  /\ tpc[t] = "user"
  /\ messages' = Append(messages,
       [session_id |-> req[t].session_id, role |-> "user", content |-> req[t].message,
        performance_data |-> NoPerf, created_at |-> dbnow, turn |-> t])
  /\ dbnow' = dbnow + 1
  /\ steps' = [steps EXCEPT ![t] = Append(@, "user")]
  /\ tpc' = [tpc EXCEPT ![t] = IF needs_web_search(req[t].message) THEN "search" ELSE "context"]
  /\ UNCHANGED <<telVars, fnVars, apiVars, asked, searched, selected_model, chat_sessions, req, conn, web_info, full_prompt,
                 gateway, result, updatedBefore>>

\* "Store user message": INSERT INTO messages (..., 'user', req.message, ...).
ChatStoreUser(t) ==
  /\ tpc[t] = "user"
  /\ SessionExists(req[t].session_id)
  /\ messages' = Append(messages,
       [session_id |-> req[t].session_id, role |-> "user", content |-> req[t].message,
        performance_data |-> NoPerf, created_at |-> dbnow, turn |-> t])
  /\ dbnow' = dbnow + 1
  /\ steps' = [steps EXCEPT ![t] = Append(@, "user")]
  /\ tpc' = [tpc EXCEPT ![t] = IF needs_web_search(req[t].message) THEN "search" ELSE "context"]
  /\ UNCHANGED <<telVars, fnVars, apiVars, asked, searched, selected_model, chat_sessions, req, conn, web_info, full_prompt,
                 gateway, result, updatedBefore>>

\* The INSERT of the user message violates the foreign key (or the id is no
\* UUID): asyncpg raises, the outer except returns the error.
ChatStoreUserRejected(t) ==
  /\ tpc[t] = "user"
  /\ ~SessionExists(req[t].session_id)
  /\ result' = [result EXCEPT ![t] = ErrorResult(t, <<"foreign key violation">>)]
  /\ tpc' = [tpc EXCEPT ![t] = "done"]
  /\ DropLocals(t)
  /\ UNCHANGED <<telVars, fnVars, apiVars, asked, searched, chat_sessions, messages, dbnow, conn, gateway, steps,
                 updatedBefore>>

\* A search step that lets a failed search end the turn with its text as the
\* error.
ChatWebSearchRaises(t) ==
  /\ tpc[t] = "search"
  /\ \E text \in WebOutcomes :
       /\ searched' = [searched EXCEPT ![t] = text]
       /\ IF text \in { <<"WEB_SEARCH_NO_CURRENT_DATA">>, <<"Search error">> }
            THEN /\ result' = [result EXCEPT ![t] = ErrorResult(t, text)]
                 /\ tpc' = [tpc EXCEPT ![t] = "done"]
                 /\ DropLocals(t)
                 /\ UNCHANGED steps
            ELSE /\ web_info' = [web_info EXCEPT ![t] = WebBlock(text)]
                 /\ steps' = [steps EXCEPT ![t] = Append(@, "search")]
                 /\ tpc' = [tpc EXCEPT ![t] = "context"]
                 /\ UNCHANGED <<selected_model, req, full_prompt, result>>
  /\ UNCHANGED <<telVars, fnVars, apiVars, asked, chat_sessions, messages, dbnow, conn, gateway, updatedBefore>>

\* `if needs_web_search(req.message): web_info = await web_search(req.message)`.
ChatWebSearch(t) ==
  /\ tpc[t] = "search"
  /\ \E text \in WebOutcomes :
       /\ web_info' = [web_info EXCEPT ![t] = WebBlock(text)]
       /\ searched' = [searched EXCEPT ![t] = text]
  /\ steps' = [steps EXCEPT ![t] = Append(@, "search")]
  /\ tpc' = [tpc EXCEPT ![t] = "context"]
  /\ UNCHANGED <<telVars, fnVars, apiVars, asked, selected_model, chat_sessions, messages, dbnow, req, conn, full_prompt,
                 gateway, result, updatedBefore>>

\* A prompt assembly that also deletes from the table the rows of the session
\* older than the context window.
ChatBuildPromptTrims(t) ==
  /\ tpc[t] = "context"
  /\ full_prompt' = [full_prompt EXCEPT ![t] =
       FullPrompt(ContextQuery(req[t].session_id), web_info[t], req[t].message)]
  /\ messages' = SelectSeq(messages, LAMBDA m :
       \/ m.session_id # req[t].session_id
       \/ Cardinality({ j \in SessionRows(req[t].session_id) :
                          messages[j].created_at > m.created_at }) < ContextLimit)
  /\ tpc' = [tpc EXCEPT ![t] = "gateway"]
  /\ UNCHANGED <<telVars, fnVars, apiVars, asked, searched, selected_model, chat_sessions, dbnow, req, conn, web_info,
                 gateway, result, steps, updatedBefore>>

\* The context query and the assembly of full_prompt.
ChatBuildPrompt(t) ==
  /\ tpc[t] = "context"
  /\ full_prompt' = [full_prompt EXCEPT ![t] =
       FullPrompt(ContextQuery(req[t].session_id), web_info[t], req[t].message)]
  /\ tpc' = [tpc EXCEPT ![t] = "gateway"]
  /\ UNCHANGED <<telVars, fnVars, apiVars, asked, searched, selected_model, chat_sessions, messages, dbnow, req, conn, web_info,
                 gateway, result, steps, updatedBefore>>

GatewayAlwaysOk(status) == TRUE

\* `if resp.status_code == 200:`
GatewayOk(status) == status = 200

\* `resp = await client.post(f"{OLLAMA_URL}/api/generate", ...)` returns.  On
\* 200 the data is parsed; otherwise conn is closed and resp.text returned.
ChatGatewayReply(t) ==
  /\ tpc[t] = "gateway"
  /\ steps' = [steps EXCEPT ![t] = Append(@, "gateway")]
  /\ \E status \in StatusCodesFor(selected_model[t]) :
       IF GatewayOk(status)
         THEN /\ \E data \in GatewayData :
                   gateway' = [gateway EXCEPT ![t] =
                     [kind |-> "reply", status |-> status, text |-> <<>>, data |-> data]]
              /\ tpc' = [tpc EXCEPT ![t] = "ai"]
              /\ DropPrompt(t)
              /\ UNCHANGED <<conn, result, req>>
         ELSE /\ gateway' = [gateway EXCEPT ![t] =
                   [kind |-> "reply", status |-> status, text |-> ErrorBody(status),
                    data |-> NoData]]
              /\ conn' = [conn EXCEPT ![t] = "closed"]
              /\ result' = [result EXCEPT ![t] = ErrorResult(t, ErrorBody(status))]
              /\ tpc' = [tpc EXCEPT ![t] = "done"]
              /\ DropLocals(t)
  /\ UNCHANGED <<telVars, fnVars, apiVars, asked, searched, chat_sessions, messages, dbnow, updatedBefore>>

\* client.post raises (the timeout of the model expires, the connection
\* fails): the outer except returns str(e).
ChatGatewayRaise(t) ==
  /\ tpc[t] = "gateway"
  /\ steps' = [steps EXCEPT ![t] = Append(@, "gateway")]
  /\ \E e \in GatewayExceptions :
       /\ gateway' = [gateway EXCEPT ![t] =
            [kind |-> "raised", status |-> 0, text |-> e, data |-> NoData]]
       /\ result' = [result EXCEPT ![t] = ErrorResult(t, e)]
  /\ tpc' = [tpc EXCEPT ![t] = "done"]
  /\ DropLocals(t)
  /\ UNCHANGED <<telVars, fnVars, apiVars, asked, searched, chat_sessions, messages, dbnow, conn, updatedBefore>>

ChatStoreAITouches(t) ==
  /\ tpc[t] = "ai"
  /\ messages' = Append(messages,
       [session_id |-> req[t].session_id, role |-> "ai",
        content |-> gateway[t].data.response,
        performance_data |-> PerformanceJson(gateway[t].data),
        created_at |-> dbnow, turn |-> t])
  /\ chat_sessions' = [chat_sessions EXCEPT ![req[t].session_id].updated_at = dbnow]
  /\ dbnow' = dbnow + 1
  /\ steps' = [steps EXCEPT ![t] = Append(@, "ai")]
  /\ tpc' = [tpc EXCEPT ![t] = "touch"]
  /\ UNCHANGED <<telVars, fnVars, apiVars, asked, searched, selected_model, req, conn, web_info, full_prompt,
                 gateway, result, updatedBefore>>

\* "Store AI response with performance data": INSERT INTO messages (..., 'ai', ...).
ChatStoreAI(t) ==
  /\ tpc[t] = "ai"
  /\ messages' = Append(messages,
       [session_id |-> req[t].session_id, role |-> "ai",
        content |-> gateway[t].data.response,
        performance_data |-> PerformanceJson(gateway[t].data),
        created_at |-> dbnow, turn |-> t])
  /\ dbnow' = dbnow + 1
  /\ steps' = [steps EXCEPT ![t] = Append(@, "ai")]
  /\ tpc' = [tpc EXCEPT ![t] = "touch"]
  /\ UNCHANGED <<telVars, fnVars, apiVars, asked, searched, selected_model, chat_sessions, req, conn, web_info, full_prompt,
                 gateway, result, updatedBefore>>

TouchedAtStale(session) == session.updated_at

\* `SET updated_at = NOW()`
TouchedAt(session) == dbnow

ChatTouchSkipped(t) ==
  /\ tpc[t] = "touch"
  /\ tpc' = [tpc EXCEPT ![t] = "close"]
  /\ UNCHANGED <<telVars, fnVars, apiVars, asked, searched, selected_model, chat_sessions, dbnow, steps, messages, req, conn,
                 web_info, full_prompt, gateway, result, updatedBefore>>

\* "Update session timestamp": UPDATE chat_sessions SET updated_at = NOW().
ChatTouchSession(t) ==
  /\ tpc[t] = "touch"
  /\ chat_sessions' = [chat_sessions EXCEPT ![req[t].session_id].updated_at =
                         TouchedAt(chat_sessions[req[t].session_id])]
  /\ dbnow' = dbnow + 1
  /\ steps' = [steps EXCEPT ![t] = Append(@, "touch")]
  /\ tpc' = [tpc EXCEPT ![t] = "close"]
  /\ UNCHANGED <<telVars, fnVars, apiVars, asked, searched, selected_model, messages, req, conn, web_info, full_prompt, gateway,
                 result, updatedBefore>>

\* `await conn.close()` and the success return.
ChatReturn(t) ==
  /\ tpc[t] = "close"
  /\ conn' = [conn EXCEPT ![t] = "closed"]
  /\ result' = [result EXCEPT ![t] =
       [status |-> "ok", response |-> gateway[t].data.response,
        session_id |-> req[t].session_id, error |-> <<>>,
        keys |-> {"status", "response", "session_id"}]]
  /\ tpc' = [tpc EXCEPT ![t] = "done"]
  /\ DropLocals(t)
  /\ UNCHANGED <<telVars, fnVars, apiVars, asked, searched, chat_sessions, messages, dbnow, gateway, steps,
                 updatedBefore>>

\* The steps of the handler of one POST /api/ollama_chat.
ChatSteps(t) ==
  \/ ChatConnect(t)
  \/ ChatConnectFail(t)
  \/ ChatStatementFail(t)
  \/ ChatCreateSession(t)
  \/ ChatStoreUser(t)
  \/ ChatStoreUserRejected(t)
  \/ ChatWebSearch(t)
  \/ ChatBuildPrompt(t)
  \/ ChatGatewayReply(t)
  \/ ChatGatewayRaise(t)
  \/ ChatStoreAI(t)
  \/ ChatTouchSession(t)
  \/ ChatReturn(t)

\* One POST /api/ollama_chat: the request arrives, then the steps.
ollama_chat(t) == ChatCall(t) \/ ChatSteps(t)

ChatNext == \E t \in Turns : ollama_chat(t)

\* The chat endpoint alone (the telemetry cache at rest).
\* Start of the chat endpoint, the telemetry cache at rest.
ChatStart == TelStart({}) /\ ChatInit

ChatSpec == ChatStart /\ [][ChatNext]_vars

\* The single turn of the specifications that observe one turn.
OneTurn == 1

\* ------------------------------------------------------------ unknown model
\* One POST /api/ollama_chat whose body may name a model the gateway does
\* not know.
ModelNext ==
  \/ ChatCallWith(OneTurn, UserMessages, RequestModels \cup {InvalidModel},
                  {NoSession, DanglingSession} \cup (1..Len(chat_sessions)))
  \/ ChatSteps(OneTurn)

ModelSpec == ChatStart /\ [][ModelNext]_vars

\* The HTTP status of the response FastAPI sends for a dict the handler
\* returned.
HttpStatus(returned) == 200

\* ------------------------------------------------------------ needs_web_search
\* The characters of the messages needs_web_search is called on: letters of
\* the keyword "now" in both cases and a letter of no keyword made of them.
Letters == { "N", "o", "W", "w", "x" }

\* The messages of at most MaxLen characters.
Texts == UNION { [1..n -> Letters] : n \in 0..MaxLen }

\* needs_web_search(message) is called and returns.
NeedsWebSearchCall ==
  /\ nws_calls < MaxCalls
  /\ nws_result' = needs_web_search(nws_message)
  /\ nws_calls' = nws_calls + 1
  /\ UNCHANGED <<telVars, nws_message, chat_sessions, messages, dbnow, tpc, req, selected_model,
                 conn, web_info, full_prompt, gateway, result, steps, updatedBefore, asked,
                 searched, apiVars>>

KeywordNext == NeedsWebSearchCall

\* Any message is about to be classified; the store is empty, no request in
\* flight, the telemetry cache at rest.
KeywordInit ==
  /\ TelStart({})
  /\ StoreState([sessions |-> <<>>, messages |-> <<>>, now |-> 1], Turns)
  /\ nws_message \in Texts
  /\ nws_result = NoAnswer
  /\ nws_calls = 0

KeywordSpec == KeywordInit /\ [][KeywordNext]_vars

\* ------------------------------------------------------------ concurrent turns
\* The requests in flight at the same time.
Pair == 1..MaxConcurrent

\* The message text of request t: each request sends a text of its own, none
\* with a search keyword.
PairMessage(t) == [k \in 1..t |-> "q"]

\* The steps of a request on an existing session with such a message: no
\* session is created, no INSERT is rejected, no web search runs.
PairSteps(t) ==
  \/ ChatConnect(t)
  \/ ChatConnectFail(t)
  \/ ChatStatementFail(t)
  \/ ChatStoreUser(t)
  \/ ChatBuildPrompt(t)
  \/ ChatGatewayReply(t)
  \/ ChatGatewayRaise(t)
  \/ ChatStoreAI(t)
  \/ ChatTouchSession(t)
  \/ ChatReturn(t)

\* Concurrent POST /api/ollama_chat requests, each on one of the existing
\* sessions.
PairNext ==
  \E t \in Pair :
    \/ ChatCallWith(t, {PairMessage(t)}, {"None"}, 1..Len(chat_sessions))
    \/ PairSteps(t)

\* Two sessions created through the endpoint, no message stored, the
\* telemetry cache at rest.
PairStart ==
  /\ TelStart({})
  /\ ChatStoredFor([sessions |-> create_session(2), messages |-> <<>>, now |-> 3], Pair)

PairSpec == PairStart /\ [][PairNext]_vars

\* POST /api/sessions: INSERT INTO chat_sessions (title) ... RETURNING id; the
\* id returned is that of the new row.
CreateSessionCall ==
  /\ Len(chat_sessions) < MaxSessions
  /\ chat_sessions' = Append(chat_sessions,
       [created_at |-> dbnow, updated_at |-> dbnow, by |-> SessionsEndpoint])
  /\ dbnow' = dbnow + 1
  /\ UNCHANGED <<telVars, fnVars, apiVars, asked, searched, messages, tpc, req, selected_model, conn, web_info,
                 full_prompt, gateway, result, steps, updatedBefore>>

RECURSIVE SessionsByRecency(_)
\* SELECT ... FROM chat_sessions ORDER BY updated_at DESC, over a set of ids.
SessionsByRecency(ids) ==
  IF ids = {} THEN <<>>
  ELSE LET first == CHOOSE i \in ids :
                      \A j \in ids : chat_sessions[j].updated_at <= chat_sessions[i].updated_at
       IN <<[id |-> first, role |-> "", content |-> <<>>,
             created_at |-> chat_sessions[first].created_at,
             updated_at |-> chat_sessions[first].updated_at]>>
          \o SessionsByRecency(ids \ {first})

\* GET /api/sessions: the sessions, most recently updated first; or the error
\* of the except branch when the store cannot be reached.
GetSessions ==
  /\ \/ sessions_listed' = [status |-> "ok", session_id |-> NoSession,
                            rows |-> SessionsByRecency(1..Len(chat_sessions))]
     \/ sessions_listed' = [status |-> "error", session_id |-> NoSession, rows |-> <<>>]
  /\ UNCHANGED <<telVars, fnVars, messages_listed, asked, searched, chat_sessions, messages, dbnow, tpc, req,
                 selected_model, conn, web_info, full_prompt, gateway, result, steps,
                 updatedBefore>>

\* SELECT ... FROM messages WHERE session_id = $1 ORDER BY created_at ASC.
MessagesOf(sid) ==
  LET desc == RowsDesc(SessionRows(sid))
  IN [k \in 1..Len(desc) |->
        [id |-> desc[Len(desc) + 1 - k],
         role |-> messages[desc[Len(desc) + 1 - k]].role,
         content |-> messages[desc[Len(desc) + 1 - k]].content,
         created_at |-> messages[desc[Len(desc) + 1 - k]].created_at,
         updated_at |-> 0]]

\* GET /api/sessions/{session_id}/messages, for a stored or an unknown id.
GetSessionMessages(sid) ==
  /\ \/ messages_listed' = [status |-> "ok", session_id |-> sid, rows |-> MessagesOf(sid)]
     \/ messages_listed' = [status |-> "error", session_id |-> sid, rows |-> <<>>]
  /\ UNCHANGED <<telVars, fnVars, sessions_listed, asked, searched, chat_sessions, messages, dbnow, tpc, req,
                 selected_model, conn, web_info, full_prompt, gateway, result, steps,
                 updatedBefore>>

\* One chat turn next to the session endpoints.
StoreNext ==
  \/ ollama_chat(OneTurn)
  \/ CreateSessionCall
  \/ GetSessions
  \/ \E sid \in {DanglingSession} \cup (1..Len(chat_sessions)) : GetSessionMessages(sid)

StoreSpec == ChatStart /\ [][StoreNext]_vars

\* A row a past turn stored: the k-th row of the table, written at time `at`.
PastRow(sid, role, k, at) ==
  [session_id |-> sid, role |-> role, content |-> <<LowerCase[k]>>,
   performance_data |-> NoPerf, created_at |-> at, turn |-> 0]

RECURSIVE History(_, _, _)
\* The tables after two calls of POST /api/sessions and p chat turns served
\* one after the other: turn o (if any) in session 2 and the others in
\* session 1; turn f (if any) failed at the gateway and left its user row
\* only, the others stored both rows and touched their session.
History(p, o, f) ==
  IF p = 0
    THEN [sessions |-> create_session(2), messages |-> <<>>, now |-> 3]
    ELSE LET h == History(p - 1, o, f)
             sid == IF p = o THEN 2 ELSE 1
             k == Len(h.messages) + 1
         IN IF p = f
              THEN [sessions |-> h.sessions,
                    messages |-> Append(h.messages, PastRow(sid, "user", k, h.now)),
                    now |-> h.now + 1]
              ELSE [sessions |-> [h.sessions EXCEPT ![sid].updated_at = h.now + 2],
                    messages |-> h.messages \o <<PastRow(sid, "user", k, h.now),
                                                  PastRow(sid, "ai", k + 1, h.now + 1)>>,
                    now |-> h.now + 3]

\* Start of a chat turn on a stored history, the telemetry cache at rest.
ContextStart ==
  /\ TelStart({})
  /\ \E p \in 0..MaxPast : \E o \in 0..p, f \in 0..p : ChatStored(History(p, o, f))

ContextNext == ollama_chat(OneTurn)

\* One chat turn on a stored history.
ContextSpec == ContextStart /\ [][ContextNext]_vars

\* One chat turn on a stored history next to GET .../messages requests.
ArchiveNext ==
  \/ ollama_chat(OneTurn)
  \/ \E sid \in 1..Len(chat_sessions) : GetSessionMessages(sid)

\* Start on a history of complete turns, the first of them (if any) possibly
\* in the second session; the telemetry cache at rest.
ArchiveStart ==
  /\ TelStart({})
  /\ \E p \in 0..MaxPast : \E o \in {0, 1} : o <= p /\ ChatStored(History(p, o, 0))

ArchiveSpec == ArchiveStart /\ [][ArchiveNext]_vars

\* The steps of the background task.
docker_stats_refresher ==
  \/ RefresherBegin
  \/ CollectList(Refresher)
  \/ ContainerStats(Refresher)
  \/ RefresherFail
  \/ RefresherAcquire
  \/ RefresherStore
  \/ RefresherWake

\* The steps of one GET /api/docker_stats.
docker_stats(r) ==
  \/ DockerStatsCall(r)
  \/ DockerStatsAcquire(r)
  \/ DockerStatsRead(r)
  \/ CollectList(r)
  \/ ContainerStats(r)
  \/ DockerStatsFail(r)
  \/ DockerStatsAcquireStore(r)
  \/ DockerStatsStore(r)

TelNext ==
  \/ startup_event
  \/ docker_stats_refresher
  \/ \E r \in Reqs : docker_stats(r)

\* ------------------------------------------------------------ live stream
\* A subscriber connects to /ws/docker_stats: `await ws.accept()`, then the
\* loop enters its first `data = await _collect_docker_stats()`.
WsAccept(b) ==
  /\ pc[b] = "idle"
  /\ ws_conn[b] = "none"
  /\ ws_conn' = [ws_conn EXCEPT ![b] = "open"]
  /\ pc' = [pc EXCEPT ![b] = "listing"]
  /\ coll' = [coll EXCEPT ![b] = NoColl]
  /\ UNCHANGED <<chatVars, orderVars, cacheVars, docker_stats_lock, reqVars, refVars, unreadable, ws_sent>>

\* A return of one handler that ends the loops of all subscribers.
WsExitCancelsAll(b) ==
  /\ pc' = [c \in Collectors |-> IF c \in Broadcasters THEN "exited" ELSE pc[c]]
  /\ coll' = [c \in Collectors |-> IF c \in Broadcasters THEN NoColl ELSE coll[c]]
  /\ ws_conn' = [c \in Broadcasters |-> "closed"]

\* The handler returns: the server closes the WebSocket.
WsExit(b) ==
  /\ pc' = [pc EXCEPT ![b] = "exited"]
  /\ coll' = [coll EXCEPT ![b] = NoColl]
  /\ ws_conn' = [ws_conn EXCEPT ![b] = "closed"]

\* The collection raised (docker unreachable): nothing inside the loop
\* catches it, `except Exception` around the loop prints and the handler
\* returns.
WsCollectFail(b) ==
  /\ pc[b] = "listing"
  /\ WsExit(b)
  /\ UNCHANGED <<chatVars, orderVars, cacheVars, docker_stats_lock, reqVars, refVars, unreadable, ws_sent>>

\* `await ws.send_json({"ts": time.time(), "containers": data})` on a working
\* connection; asyncio.sleep(2) begins.  The wall-clock ts is left out.
WsSend(b) ==
  /\ pc[b] = "gathering"
  /\ GatherDone(b)
  /\ ws_conn[b] = "open"
  /\ ws_sent' = [ws_sent EXCEPT ![b] = [pushed |-> TRUE, containers |-> GatherResult(b)]]
  /\ pc' = [pc EXCEPT ![b] = "sleep"]
  /\ coll' = [coll EXCEPT ![b] = NoColl]
  /\ UNCHANGED <<chatVars, orderVars, cacheVars, docker_stats_lock, reqVars, refVars, unreadable, ws_conn>>

\* send_json raises on a connection the subscriber left (WebSocketDisconnect)
\* or whose transport failed (another exception): either handler prints and
\* the handler returns.
WsSendFail(b) ==
  /\ pc[b] = "gathering"
  /\ GatherDone(b)
  /\ ws_conn[b] \in {"gone", "broken"}
  /\ WsExit(b)
  /\ UNCHANGED <<chatVars, orderVars, cacheVars, docker_stats_lock, reqVars, refVars, unreadable, ws_sent>>

\* asyncio.sleep(2) returns; the loop starts the next collection.
WsWake(b) ==
  /\ pc[b] = "sleep"
  /\ pc' = [pc EXCEPT ![b] = "listing"]
  /\ UNCHANGED <<chatVars, orderVars, cacheVars, docker_stats_lock, coll, reqVars, refVars, unreadable, wsVars>>

\* The subscriber closes its end of the connection.
SubscriberDisconnect(b) ==
  /\ ws_conn[b] = "open"
  /\ ws_conn' = [ws_conn EXCEPT ![b] = "gone"]
  /\ UNCHANGED <<chatVars, orderVars, cacheVars, docker_stats_lock, pc, coll, reqVars, refVars, unreadable, ws_sent>>

\* The transport of the connection fails.
TransportError(b) ==
  /\ ws_conn[b] = "open"
  /\ ws_conn' = [ws_conn EXCEPT ![b] = "broken"]
  /\ UNCHANGED <<chatVars, orderVars, cacheVars, docker_stats_lock, pc, coll, reqVars, refVars, unreadable, ws_sent>>

websocket_docker_stats(b) ==
  \/ WsAccept(b)
  \/ CollectList(b)
  \/ ContainerStats(b)
  \/ WsCollectFail(b)
  \/ WsSend(b)
  \/ WsSendFail(b)
  \/ WsWake(b)

WsNext ==
  \/ websocket_docker_stats(Broadcaster)
  \/ SubscriberDisconnect(Broadcaster)
  \/ TransportError(Broadcaster)

\* Start of the live stream: no subscriber yet, any of the containers the
\* broadcaster may list unreadable, the chat store empty.
WsInit == (\E unr \in SUBSET (1..Listed(Broadcaster)) : TelStart(unr)) /\ ChatTables(0)

\* The live stream alone.
WsSpec == WsInit /\ [][WsNext]_vars

\* The refresh loop next to the live streams of all subscribers.
LoopsNext ==
  \/ startup_event
  \/ docker_stats_refresher
  \/ \E b \in Broadcasters :
       \/ websocket_docker_stats(b)
       \/ SubscriberDisconnect(b)
       \/ TransportError(b)

\* Start of the process: no subscriber yet, every container readable, the
\* chat store empty.
LoopsInit == TelStart({}) /\ ChatTables(0)

LoopsSpec == LoopsInit /\ [][LoopsNext]_vars

\* The telemetry cache alone.
\* Start of the telemetry cache, the chat store empty.
TelOnlyInit == TelInit /\ ChatTables(0)

TelSpec == TelOnlyInit /\ [][TelNext]_vars

\* The event loop runs every coroutine that can run; asyncio.Lock wakes its
\* waiters in order, so a coroutine waiting for the lock gets it.
TelFairness ==
  /\ WF_vars(startup_event)
  /\ WF_vars(docker_stats_refresher)
  /\ SF_vars(RefresherAcquire)
  /\ \A r \in Reqs : WF_vars(DockerStatsRead(r)) /\ WF_vars(DockerStatsStore(r))

\* Every container readable: which stats reads raise plays no part in the
\* progress of the loop.
\* Start of the refresher with every container readable, the chat store empty.
TelFairInit == TelStart({}) /\ ChatTables(0)

TelFairSpec == TelFairInit /\ [][TelNext]_vars /\ TelFairness

\* The telemetry alone, with the order of the collections recorded.
OrderInit == TelState({}, TRUE) /\ ChatTables(0)

OrderSpec == OrderInit /\ [][TelNext]_vars

Init == TelInit /\ ChatInit

Next == TelNext \/ WsNext \/ ChatNext

Spec == Init /\ [][Next]_vars

\* ================================================================ claims

\* Rows of `messages` written by turn t with the given role.
TurnRows(t, role) ==
  { i \in 1..Len(messages) : messages[i].turn = t /\ messages[i].role = role }

\* The steps of a successful turn whose message does / does not need a search.
StepsOnSuccess(message) ==
  IF needs_web_search(message)
    THEN <<"user", "search", "gateway", "ai", "touch">>
    ELSE <<"user", "gateway", "ai", "touch">>

\* C1: every chat turn that returns success has performed, in this order, the
\* user-message insert, the web search exactly when needs_web_search holds for
\* the message, the gateway call, the AI-message insert and the touch of the
\* session; none is skipped, and the timestamps the store assigned to the two
\* rows and to the touch are in that order.
C1_SuccessStepsInOrder ==
  \A t \in Turns :
    result[t].status = "ok" =>
      /\ \A i \in TurnRows(t, "user") : steps[t] = StepsOnSuccess(messages[i].content)
      /\ \E i \in TurnRows(t, "user"), j \in TurnRows(t, "ai") :
           /\ i < j
           /\ messages[i].created_at < messages[j].created_at
           /\ messages[j].created_at < chat_sessions[result[t].session_id].updated_at

\* A turn that needed a web search returned success.
C1_Witness ==
  \E t \in Turns :
    /\ result[t].status = "ok"
    /\ \E i \in TurnRows(t, "user") : needs_web_search(messages[i].content)
    /\ Len(steps[t]) = 5

\* The gateway call of turn t was made and did not succeed.
GatewayFailed(t) ==
  \/ gateway[t].kind = "raised"
  \/ gateway[t].kind = "reply" /\ gateway[t].status # 200

\* C2: when the gateway call returns a non-success status or raises (a timeout
\* included), the turn has returned an error result whose error is the text of
\* the reply or of the exception, and no 'ai' row of that turn exists.
C2_GatewayFailureIsError ==
  \A t \in Turns :
    GatewayFailed(t) =>
      /\ tpc[t] = "done"
      /\ result[t].status = "error"
      /\ result[t].error = gateway[t].text
      /\ result[t].response = <<>>
      /\ TurnRows(t, "ai") = {}

\* A turn returned after a non-success reply of the gateway, its user message
\* stored.
C2_Witness ==
  \E t \in Turns :
    /\ gateway[t].kind = "reply" /\ gateway[t].status = 500
    /\ tpc[t] = "done"
    /\ TurnRows(t, "user") # {}

\* C3: after a chat turn that completed successfully, exactly two rows written
\* by the turn exist, one 'user' and one 'ai', both in the session the turn
\* returns, and the updated_at of that session is strictly greater than it was
\* before the turn.
C3_TwoMessagesAndTouched ==
  \A t \in Turns :
    result[t].status = "ok" =>
      /\ Cardinality(TurnRows(t, "user")) = 1
      /\ Cardinality(TurnRows(t, "ai")) = 1
      /\ \A i \in TurnRows(t, "user") \cup TurnRows(t, "ai") :
           messages[i].session_id = result[t].session_id
      /\ SessionExists(result[t].session_id)
      /\ chat_sessions[result[t].session_id].updated_at > updatedBefore[t]

\* A turn completed successfully in a session that existed before it.
C3_Witness ==
  \E t \in Turns :
    /\ result[t].status = "ok"
    /\ chat_sessions[result[t].session_id].by = SessionsEndpoint
    /\ updatedBefore[t] > 0

\* A frame as one collection returns it: every slot filled by the same
\* collector, the containers in listing order.
CompleteFrame(f) ==
  \E c \in Collectors :
    \A i \in 1..Len(f) :
      /\ f[i].by = c
      /\ f[i].name = i
      /\ f[i].kind \in {"stats", "error"}

C5_CachedWheneverStored ==
  [][\A r \in Reqs :
       (pc[r] = "read" /\ pc'[r] # "read" /\ docker_stats_ts > 0)
         => (pc'[r] = "done" /\ resp'[r].status = "ok" /\ resp'[r].cached)]_vars

\* C6 (as claimed): once a refresh interval has elapsed, no response is an
\* error or an empty frame.
C6_NeverAbsentAfterInterval ==
  [][\A r \in Reqs :
       (intervalElapsed /\ resp[r].status = "none" /\ resp'[r].status # "none")
         => (resp'[r].status = "ok" /\ resp'[r].containers # <<>>)]_vars

\* C6 (amended): a request that reads the cache while the frame of the most
\* recent successful store is non-empty returns exactly that frame, cached,
\* however many refresher attempts have failed since.
C6_ReadReturnsLastGood ==
  [][\A r \in Reqs :
       (pc[r] = "read" /\ pc'[r] # "read" /\ lastGood # <<>>)
         => /\ pc'[r] = "done"
            /\ resp'[r].status = "ok" /\ resp'[r].cached
            /\ resp'[r].containers = lastGood]_vars

\* C6 witness: after a refresh interval and two consecutive failed refresher
\* attempts a request was served the last good frame.
C6_Witness ==
  \E r \in Reqs :
    /\ intervalElapsed
    /\ resp[r].status = "ok" /\ resp[r].cached /\ resp[r].streak = 2
    /\ resp[r].containers = lastGood /\ lastGood # <<>>

\* C7 (as claimed): a request answered while nothing has been stored yet (cold
\* cache) always gets a non-empty frame.
C7_ColdCallerNeverEmpty ==
  \A r \in Reqs :
    (docker_stats_ts = 0 /\ resp[r].status # "none")
      => (resp[r].status = "ok" /\ resp[r].containers # <<>>)

\* C7 (amended): a cold-path response (cached=false) carries exactly the frame
\* the request collected itself, one filled entry per listed container; an
\* error response arises only on the cold path and carries no frame.
C7_ColdCallerGetsOwnFrame ==
  \A r \in Reqs :
    /\ (resp[r].status = "ok" /\ ~resp[r].cached)
         => /\ cacheRead[r] = <<>>
            /\ resp[r].containers = coll[r].res
            /\ Len(resp[r].containers) = coll[r].n
            /\ \A i \in 1..coll[r].n :
                 resp[r].containers[i].by = r /\ resp[r].containers[i].kind # "pending"
    /\ resp[r].status = "error" => (cacheRead[r] = <<>> /\ resp[r].containers = <<>>)

\* C7 witness: a cold request returned the frame it collected, with a container.
C7_Witness ==
  \E r \in Reqs :
    /\ resp[r].status = "ok" /\ ~resp[r].cached
    /\ Len(resp[r].containers) = MaxContainers

\* C8: the step in which a collection of the refresher fails changes neither
\* the cached frame nor its timestamp.
C8_FailureKeepsFrame ==
  [][(pc[Refresher] = "listing" /\ pc'[Refresher] # "listing"
        /\ pc'[Refresher] # "gathering")
       => (docker_stats_cache' = docker_stats_cache /\ docker_stats_ts' = docker_stats_ts)]_vars

\* C8 witness: the refresher has just failed while a frame is cached.
C8_Witness ==
  /\ pc[Refresher] = "sleep" /\ failStreak >= 1
  /\ docker_stats_cache # <<>> /\ docker_stats_ts > 0

\* C9: after a failed attempt the refresher always comes round to another
\* collection, and a collection whose listing succeeded is eventually stored.
C9_RefresherRetries ==
  /\ [](failStreak >= 1 => <>(pc[Refresher] = "listing"))
  /\ [](pc[Refresher] = "gathering" => <>(pc[Refresher] = "sleep" /\ failStreak = 0))

\* C9 witness: the refresher collects again after two failures in a row, and
\* stores.
C9_Witness ==
  /\ pc[Refresher] = "store" /\ failStreak = 2

\* C10 (as claimed): at most one collection is in progress on the cache path.
C10_AtMostOneCollection ==
  Cardinality({c \in Collectors : Collecting(c)}) <= 1

\* C10 (amended): a request is inside a collection (or storing its result) only
\* if the cache it read was empty; a request that read a frame never collects.
C10_RequestCollectsOnlyWhenCold ==
  \A r \in Reqs : (Collecting(r) \/ pc[r] = "store") => cacheRead[r] = <<>>

\* C10 witness: a request that read an empty cache collects while the refresher
\* collects too.
C10_Witness ==
  \E r \in Reqs : Collecting(r) /\ cacheRead[r] = <<>> /\ Collecting(Refresher)

\* The collectors inside an `async with _docker_stats_lock:` block.
InCriticalSection == { c \in Collectors : pc[c] \in {"read", "store"} }

\* The holder of the lock is the one collector inside its critical section.
LockHeldOnlyInCriticalSection ==
  /\ docker_stats_lock = "free" => InCriticalSection = {}
  /\ docker_stats_lock = "refresher" => InCriticalSection = {Refresher}
  /\ docker_stats_lock = "request" =>
       \E r \in Reqs : InCriticalSection = {r}

\* C11: the cache and its timestamp change, and the cache is read into a
\* request, only in a step taken by the holder of the lock, which releases it
\* in that same step; the lock is held by exactly the collector inside its
\* critical section, never by one inside a collection, so the holder's next
\* step needs no collection to progress and a request that waits for the lock
\* waits for no in-flight collection.
C11_CacheAccessUnderLock ==
  /\ [](LockHeldOnlyInCriticalSection)
  /\ [](\A c \in Collectors : Collecting(c) => c \notin InCriticalSection)
  /\ [][ (docker_stats_cache' # docker_stats_cache \/ docker_stats_ts' # docker_stats_ts)
           => (docker_stats_lock # "free" /\ docker_stats_lock' = "free") ]_vars
  /\ [][ \A r \in Reqs : (pc[r] = "read" /\ pc'[r] # "read")
           => (docker_stats_lock = "request" /\ docker_stats_lock' = "free"
               /\ cacheRead'[r] = docker_stats_cache) ]_vars
  /\ [](\A r \in Reqs : pc[r] = "acquire" =>
          \/ ENABLED DockerStatsAcquire(r)
          \/ ENABLED RefresherStore
          \/ \E q \in Reqs : ENABLED DockerStatsRead(q) \/ ENABLED DockerStatsStore(q))

\* C11 witness: a request holds the lock on a warm cache while the refresher
\* is inside a collection.
C11_Witness ==
  \E r \in Reqs :
    /\ pc[r] = "read" /\ docker_stats_lock = "request"
    /\ docker_stats_cache # <<>>
    /\ pc[Refresher] = "gathering"

\* The rows of session sid stored later than row i.
LaterRows(sid, i) ==
  { j \in SessionRows(sid) : messages[j].created_at > messages[i].created_at }

\* The most recent rows of session sid: those with fewer than ContextLimit
\* rows of the session stored after them.
MostRecentRows(sid) ==
  { i \in SessionRows(sid) : Cardinality(LaterRows(sid, i)) < ContextLimit }

\* The k-th oldest row of a set of rows of `messages`.
KthOldest(rows, k) ==
  CHOOSE i \in rows :
    Cardinality({ j \in rows : messages[j].created_at < messages[i].created_at }) = k - 1

\* C12: when a turn builds its prompt, the context block is the header, then
\* one line per most recent row of the turn's session (at most 10, exactly 10
\* when the session holds more than 10 rows) from the oldest to the newest,
\* each with the role and the content of its row, then the trailer; no row of
\* another session is rendered.
C12_ContextIsLatestTenOldestFirst ==
  [][ \A t \in Turns :
        (tpc[t] = "context" /\ tpc'[t] = "gateway") =>
          LET sid == req[t].session_id
              rows == MostRecentRows(sid)
              n == Cardinality(rows)
              prompt == full_prompt'[t]
          IN /\ Cardinality(SessionRows(sid)) > ContextLimit => n = ContextLimit
             /\ n <= ContextLimit
             /\ Len(prompt) >= n + 2
             /\ prompt[1].part = "Previous conversation:"
             /\ \A k \in 1..n :
                  /\ prompt[k + 1].part = "line"
                  /\ prompt[k + 1].role = RoleUpper(messages[KthOldest(rows, k)].role)
                  /\ prompt[k + 1].text = messages[KthOldest(rows, k)].content
                  /\ messages[KthOldest(rows, k)].session_id = sid
             /\ prompt[n + 2].part = "Current conversation:"
             /\ \A k \in (n + 3)..Len(prompt) :
                  prompt[k].part = "line" => prompt[k].text = req[t].message
    ]_vars

\* C12 witness: a prompt was built for a session holding more than 10 rows
\* while another session holds a row stored among them.
C12_Witness ==
  \E t \in Turns :
    /\ tpc[t] = "gateway"
    /\ Cardinality(SessionRows(req[t].session_id)) > ContextLimit
    /\ \E i \in 1..Len(messages), j \in SessionRows(req[t].session_id) :
         /\ messages[i].session_id # req[t].session_id
         /\ messages[i].created_at > messages[j].created_at
    /\ Len(full_prompt[t]) = ContextLimit + 4

\* The fraction q is the number of seconds that ns nanoseconds are.
IsSecondsOf(q, ns) ==
  /\ q.den > 0 /\ NsPerSecond % q.den = 0
  /\ q.num * (NsPerSecond \div q.den) = ns

\* The fraction `rate` is count / duration_s when duration_s > 0, else 0.
IsRateOf(rate, count, duration_s) ==
  /\ rate.den > 0
  /\ IF duration_s.num > 0
       THEN rate.num * duration_s.num = count * rate.den * duration_s.den
       ELSE rate.num = 0

\* C13: the 'ai' row a turn stored has no performance record when the gateway
\* reported total_duration = 0 and has one when it reported more; in the
\* record the durations are the reported counters in seconds, eval_rate times
\* eval_duration_s is eval_count and prompt_rate times prompt_eval_duration_s
\* is prompt_eval_count, and a rate is 0 when its duration is 0.
C13_PerformanceRecord ==
  \A t \in Turns : \A i \in TurnRows(t, "ai") :
    LET data == gateway[t].data
        perf == messages[i].performance_data
    IN /\ data.total_duration = 0 => perf = NoPerf
       /\ data.total_duration > 0 =>
            /\ perf.present
            /\ IsSecondsOf(perf.total_duration, data.total_duration)
            /\ IsSecondsOf(perf.eval_duration, data.eval_duration)
            /\ IsSecondsOf(perf.prompt_eval_duration, data.prompt_eval_duration)
            /\ perf.eval_count = data.eval_count
            /\ perf.prompt_eval_count = data.prompt_eval_count
            /\ IsRateOf(perf.eval_rate, data.eval_count, perf.eval_duration)
            /\ IsRateOf(perf.prompt_rate, data.prompt_eval_count, perf.prompt_eval_duration)

\* C13 witness: a stored record whose generation time is 0 (rate 0) next to a
\* positive prompt rate.
C13_Witness ==
  \E t \in Turns : \E i \in TurnRows(t, "ai") :
    /\ messages[i].performance_data.present
    /\ gateway[t].data.eval_duration = 0 /\ gateway[t].data.eval_count > 0
    /\ messages[i].performance_data.eval_rate = Zero
    /\ messages[i].performance_data.prompt_rate.num > 0

\* C14 (as claimed): the dict a successful turn returns has the key
\* performance_data.
C14_ReturnsPerformanceData ==
  \A t \in Turns :
    result[t].status = "ok" => "performance_data" \in result[t].keys

\* The number of times a turn has performed the step `what`.
StepCount(t, what) == Cardinality({ k \in 1..Len(steps[t]) : steps[t][k] = what })

\* The step taken is the touch of session s by turn t, its AI row stored.
IsTouchOf(t, s) ==
  /\ tpc[t] = "touch" /\ tpc'[t] = "close"
  /\ req[t].session_id = s
  /\ TurnRows(t, "ai") # {}
  /\ chat_sessions'[s].updated_at > chat_sessions[s].updated_at

CreatedBy(t) == { s \in 1..Len(chat_sessions) : chat_sessions[s].by = t }

\* C16: a turn never creates more than one session and creates none when its
\* request names a session.  A successful turn called without session_id has
\* created exactly one session, stored its user row and its ai row under it
\* and returns its id, which is not null; a successful turn called with a
\* session_id has created no session and returns that id.
C16_SessionResolved ==
  \A t \in Turns :
    /\ Cardinality(CreatedBy(t)) <= 1
    /\ asked[t] # NoSession => CreatedBy(t) = {}
    /\ result[t].status = "ok" =>
         IF asked[t] = NoSession
           THEN /\ Cardinality(CreatedBy(t)) = 1
                /\ result[t].session_id \in CreatedBy(t)
                /\ result[t].session_id # NoSession
                /\ \E i \in TurnRows(t, "user"), j \in TurnRows(t, "ai") :
                     /\ messages[i].session_id = result[t].session_id
                     /\ messages[j].session_id = result[t].session_id
           ELSE /\ result[t].session_id = asked[t]
                /\ SessionExists(asked[t])

\* C16 witness: a successful turn called without session_id, next to a
\* session that existed before.
C16_Witness ==
  \E t \in Turns :
    /\ result[t].status = "ok" /\ asked[t] = NoSession
    /\ CreatedBy(t) = {result[t].session_id}
    /\ Len(chat_sessions) = 2

\* What web_search returns when it found nothing or failed.
SearchFailures == { <<"WEB_SEARCH_NO_CURRENT_DATA">>, <<"Search error">> }

\* The prompt has the web block with `text` directly before the new user turn.
HasWebBlock(prompt, text) ==
  \E k \in 1..(Len(prompt) - 2) :
    /\ prompt[k] = [part |-> "Web Search Results", role |-> "", text |-> text]
    /\ prompt[k + 1].part = "line" /\ prompt[k + 1].role = "USER"
    /\ k + 2 = Len(prompt)

\* C17: a web search that returns the no-data text or its error text does
\* not end the turn: no result is returned at the search step, the text is in
\* the prompt that is built, the gateway call is made with that prompt, a 200
\* reply takes the turn on to store the AI row, and no error result of the
\* turn carries the text of the search; a turn with a failed search that
\* returned success has stored its AI row.
C17_SearchFailureAbsorbed ==
  /\ [][ \A t \in Turns :
           /\ (tpc[t] = "search" /\ tpc'[t] # "search") =>
                (tpc'[t] = "context" /\ result'[t] = NoResult)
           /\ (tpc[t] = "context" /\ tpc'[t] = "gateway" /\ searched[t] \in SearchFailures) =>
                HasWebBlock(full_prompt'[t], searched[t])
           /\ (tpc[t] = "gateway" /\ searched[t] \in SearchFailures) =>
                /\ HasWebBlock(full_prompt[t], searched[t])
                /\ ENABLED ChatGatewayReply(t)
                /\ (gateway'[t].kind = "reply" /\ gateway'[t].status = 200) =>
                     (tpc'[t] = "ai" /\ result'[t] = NoResult) ]_vars
  /\ [](\A t \in Turns :
          searched[t] \in SearchFailures =>
            /\ result[t].error # searched[t]
            /\ result[t].status = "ok" =>
                 (TurnRows(t, "ai") # {} /\ "gateway" \in { steps[t][k] : k \in 1..Len(steps[t]) }))

\* C17 witness: a turn whose web search returned the no-data text has
\* returned success.
C17_Witness ==
  \E t \in Turns :
    /\ searched[t] = <<"WEB_SEARCH_NO_CURRENT_DATA">>
    /\ result[t].status = "ok"
    /\ TurnRows(t, "ai") # {}

\* The session row a message row refers to was inserted before the message.
WrittenIntoSession(row) ==
  /\ SessionExists(row.session_id)
  /\ chat_sessions[row.session_id].created_at < row.created_at

\* C18: every row of messages refers to a row of chat_sessions that was
\* inserted before it; a turn whose request names no existing session has
\* stored no row, has not called the gateway, has not returned success, and
\* once it has returned its result is an error.
C18_MessagesBelongToSessions ==
  /\ \A i \in 1..Len(messages) : WrittenIntoSession(messages[i])
  /\ \A t \in Turns :
       asked[t] = DanglingSession =>
         /\ TurnRows(t, "user") \cup TurnRows(t, "ai") = {}
         /\ gateway[t] = NoGateway
         /\ \A k \in 1..Len(steps[t]) : steps[t][k] \notin {"user", "gateway", "ai"}
         /\ result[t].status # "ok"
         /\ tpc[t] = "done" => (result[t].status = "error" /\ result[t].error # <<>>)

\* C18 witness: the INSERT of a turn that named a missing session was
\* rejected and the turn returned the error.
C18_Witness ==
  \E t \in Turns :
    /\ asked[t] = DanglingSession
    /\ tpc[t] = "done"
    /\ result[t].status = "error"
    /\ result[t].error = <<"foreign key violation">>

\* Entry e is the one of container i in a frame of collector c: an error
\* entry exactly when the stats read of container i fails.
IsEntryOf(e, i, c) ==
  /\ e.name = i
  /\ e.by = c
  /\ e.kind = (IF i \in unreadable THEN "error" ELSE "stats")

\* C19: while a collection gathers, every slot already filled holds the entry
\* of its own container -- an error entry exactly for a container whose stats
\* read fails, the stats entry otherwise, whatever the other containers do --
\* and a filled slot is not changed again; a gather in progress is never
\* abandoned; and the frame the broadcaster pushes is the result of its
\* collection: one entry per listed container, in listing order.
C19_OneEntryPerContainer ==
  /\ [](\A c \in Collectors :
          pc[c] = "gathering" =>
            /\ Len(coll[c].res) = coll[c].n
            /\ \A i \in 1..coll[c].n :
                 coll[c].res[i] = NoEntry \/ IsEntryOf(coll[c].res[i], i, c))
  /\ [][ \A c \in Collectors :
           pc[c] = "gathering" =>
             /\ pc'[c] = "gathering" \/ GatherDone(c)
             /\ pc'[c] = "gathering" =>
                  /\ coll'[c].n = coll[c].n
                  /\ \A i \in 1..coll[c].n :
                       coll[c].res[i] # NoEntry => coll'[c].res[i] = coll[c].res[i]
             /\ (c = Broadcaster /\ pc'[c] = "sleep") =>
                  /\ ws_sent'[Broadcaster].pushed
                  /\ Len(ws_sent'[Broadcaster].containers) = coll[c].n
                  /\ \A i \in 1..coll[c].n : IsEntryOf(ws_sent'[Broadcaster].containers[i], i, c) ]_vars

\* C19 witness: a pushed frame of two containers, the first unreadable, the
\* second read.
C19_Witness ==
  /\ ws_sent[Broadcaster].pushed
  /\ Len(ws_sent[Broadcaster].containers) = 2
  /\ ws_sent[Broadcaster].containers[1].kind = "error" /\ ws_sent[Broadcaster].containers[1].name = 1
  /\ ws_sent[Broadcaster].containers[2].kind = "stats" /\ ws_sent[Broadcaster].containers[2].name = 2

\* The broadcaster's loop has ended.
WsExited == pc[Broadcaster] = "exited"

\* C20 as stated: the broadcaster's loop ends only on a connection the
\* subscriber has left or whose transport has failed.
C20_ExitsOnlyOnDisconnect ==
  [][ (~WsExited /\ WsExited') => ws_conn[Broadcaster] \in {"gone", "broken"} ]_vars

\* What the store holds of session s: its rows of messages in table order,
\* its row of chat_sessions, and the answer of the context query for it.
SessionData(s) ==
  [rows |-> SelectSeq(messages, LAMBDA m : m.session_id = s),
   session |-> chat_sessions[s],
   context |-> ContextQuery(s)]

\* C21: a step of a request on one session changes nothing of any other
\* session -- its rows, its updated_at, the answer of its context query --
\* under every interleaving of the concurrent requests; and the prompt a
\* request builds renders no message sent by a request on another session.
C21_SessionsIndependent ==
  [][ \A t \in Pair :
        /\ tpc'[t] # tpc[t] =>
             \A s \in 1..Len(chat_sessions) :
               s # asked'[t] => SessionData(s)' = SessionData(s)
        /\ (tpc[t] = "context" /\ tpc'[t] = "gateway") =>
             \A u \in Pair : \A k \in 1..Len(full_prompt'[t]) :
               (asked[u] # asked[t] /\ full_prompt'[t][k].part = "line") =>
                 full_prompt'[t][k].text # PairMessage(u) ]_vars

\* C21 witness: two requests on different sessions both returned success and
\* their writes interleaved: the user row of the second lies between the two
\* rows of the first.
C21_Witness ==
  \E t, u \in Pair :
    /\ asked[t] # asked[u]
    /\ result[t].status = "ok" /\ result[u].status = "ok"
    /\ \E i \in TurnRows(t, "user"), j \in TurnRows(u, "user"), k \in TurnRows(t, "ai") :
         i < j /\ j < k

\* Keyword `term` stands in message m at offset i, letter case ignored.
TermAt(m, term, i) ==
  /\ i + Len(term) <= Len(m)
  /\ \A j \in 1..Len(term) : LowerChar(m[i + j]) = term[j]

\* Message m holds a term of the vocabulary somewhere, letter case ignored.
HoldsTerm(m) ==
  \E k \in 1..Len(search_keywords) : \E i \in 0..Len(m) : TermAt(m, search_keywords[k], i)

C23_InvalidModelRejected ==
  [][ \A t \in Turns :
        selected_model[t] = InvalidModel =>
          /\ messages' = messages
          /\ tpc'[t] = "done" => HttpStatus(result'[t]) = 400 ]_vars

\* Number of rows the context query returns for session sid.
ContextSize(sid) ==
  IF Cardinality(SessionRows(sid)) < ContextLimit
    THEN Cardinality(SessionRows(sid)) ELSE ContextLimit

\* C24: the prompt a turn builds is, in this order: the context block --
\* header, one line per context message, trailer -- present exactly when the
\* context query returned rows and then starting the prompt; the web block,
\* present exactly when the message holds a search keyword; the USER line
\* with the new message and the ASSISTANT: cue.  It has no other part.
C24_PromptParts ==
  [][ \A t \in Turns :
        (tpc[t] = "context" /\ tpc'[t] = "gateway") =>
          LET prompt == full_prompt'[t]
              n == ContextSize(req[t].session_id)
              c == IF n > 0 THEN n + 2 ELSE 0
              w == IF HoldsTerm(req[t].message) THEN 1 ELSE 0
          IN /\ Len(prompt) = c + w + 2
             /\ n > 0 =>
                  /\ prompt[1].part = "Previous conversation:"
                  /\ \A k \in 2..(n + 1) : prompt[k].part = "line"
                  /\ prompt[n + 2].part = "Current conversation:"
             /\ w = 1 =>
                  /\ prompt[c + 1].part = "Web Search Results"
                  /\ prompt[c + 1].text = searched[t]
             /\ prompt[c + w + 1] = [part |-> "line", role |-> "USER", text |-> req[t].message]
             /\ prompt[c + w + 2].part = "ASSISTANT:" ]_vars

\* C24 witness: a prompt with all three parts is about to be sent: context
\* block, web block, new user turn.
C24_Witness ==
  \E t \in Turns :
    /\ tpc[t] = "gateway"
    /\ Len(full_prompt[t]) >= 6
    /\ full_prompt[t][1].part = "Previous conversation:"
    /\ \E k \in 1..Len(full_prompt[t]) : full_prompt[t][k].part = "Web Search Results"
    /\ full_prompt[t][Len(full_prompt[t]) - 1].role = "USER"

\* Sequence s is the beginning of sequence u.
IsPrefix(s, u) == Len(s) <= Len(u) /\ \A k \in 1..Len(s) : s[k] = u[k]

\* C25: no step removes or rewrites a row of messages (rows are only
\* appended), and whatever GET .../messages returned for a session is the
\* beginning of what it returns now, row for row with the same id, role and
\* content -- also for a session holding more than 10 rows.
C25_MessagesAppendOnly ==
  /\ [][IsPrefix(messages, messages')]_vars
  /\ [](messages_listed.status = "ok" =>
          IsPrefix(messages_listed.rows, MessagesOf(messages_listed.session_id)))

\* C25 witness: a session holding more than 10 messages was listed, then a
\* turn on it returned success, and the session now holds more than was listed.
C25_Witness ==
  /\ messages_listed.status = "ok"
  /\ Len(messages_listed.rows) > ContextLimit
  /\ result[OneTurn].status = "ok"
  /\ asked[OneTurn] = messages_listed.session_id
  /\ Len(MessagesOf(messages_listed.session_id)) = Len(messages_listed.rows) + 2

\* What belongs to the loop of collector c: its control point, its
\* collection and, for a broadcaster, its connection and last push.
LoopState(c) ==
  [pc |-> pc[c], coll |-> coll[c],
   conn |-> IF c \in Broadcasters THEN ws_conn[c] ELSE "none",
   sent |-> IF c \in Broadcasters THEN ws_sent[c] ELSE NoPush]

\* Broadcaster b takes the step.
WsStepOf(b) == LoopState(b)' # LoopState(b)

\* C26: a step of a broadcaster -- its exit included -- leaves the cache, its
\* timestamp and its lock as they are, and leaves the refresher and every
\* other broadcaster where they were; what a broadcaster pushes is made of
\* entries of its own collection only; and whatever broadcasters have exited,
\* the refresher can take its next step and every broadcaster that has not
\* exited can take its own.
C26_LoopsIndependent ==
  /\ [][ \A b \in Broadcasters :
           WsStepOf(b) =>
             /\ UNCHANGED <<cacheVars, docker_stats_lock, refVars, reqVars>>
             /\ \A c \in Collectors \ {b} : LoopState(c)' = LoopState(c) ]_vars
  /\ [](\A b \in Broadcasters :
          /\ \A i \in 1..Len(ws_sent[b].containers) : ws_sent[b].containers[i].by = b
          /\ pc[b] # "exited" =>
               ENABLED (websocket_docker_stats(b)))
  /\ [](ENABLED (startup_event \/ docker_stats_refresher))

\* C26 witness: one broadcaster has exited; another has pushed a frame on
\* its open connection and sleeps; the refresher, with a frame cached, is in
\* the middle of its next collection.
C26_Witness ==
  \E b, o \in Broadcasters :
    /\ b # o
    /\ pc[b] = "exited"
    /\ pc[o] = "sleep" /\ ws_conn[o] = "open" /\ ws_sent[o].pushed
    /\ Len(ws_sent[o].containers) > 0
    /\ pc[Refresher] = "gathering"
    /\ docker_stats_cache # <<>>

\* C27 as stated: a turn that returned an error result has left the store as
\* it found it: no row of chat_sessions and no row of messages is the turn's.
C27_ErrorTurnLeavesNoTrace ==
  \A t \in Turns :
    result[t].status = "error" =>
      /\ CreatedBy(t) = {}
      /\ TurnRows(t, "user") \cup TurnRows(t, "ai") = {}
\* ---------------------------------------------------------------------
\* C28 (as stated): the cached frame never goes backwards in freshness: no
\* store replaces the cached frame by a frame whose collection began before
\* the collection of the frame it replaces.
C28_NeverOlderFrame ==
  [][\A c \in {Refresher} \cup Reqs :
       (pc[c] = "store" /\ pc'[c] # "store") => c \notin cacheStale]_vars

\* The rows of `messages` the context query of session sid returns.
ContextRows(sid) ==
  LET desc == RowsDesc(SessionRows(sid))
  IN { desc[k] : k \in 1..ContextSize(sid) }

\* C29 (as stated): in the prompt a turn builds, the new user message is the
\* final USER line, and the context block is made of messages stored before
\* the turn began only: the row of the message being answered is not among
\* the rows the context query returns.
C29_ContextExcludesNewMessage ==
  [][ \A t \in Turns :
        (tpc[t] = "context" /\ tpc'[t] = "gateway") =>
          /\ full_prompt'[t][Len(full_prompt'[t]) - 1] =
               [part |-> "line", role |-> "USER", text |-> req[t].message]
          /\ ContextRows(req[t].session_id) \cap TurnRows(t, "user") = {} ]_vars

\* The rows of session sid ordered by created_at, oldest first.
RowsAsc(sid) == Reversed(RowsDesc(SessionRows(sid)))

\* C30 (as stated): once no turn is in flight, whatever turns ran on a
\* session -- failed ones and concurrent ones included -- its messages in
\* created_at order alternate user, ai, user, ai from a user message on, and
\* each ai message comes directly after the user message of its own turn.
C30_StrictAlternation ==
  (\A t \in DOMAIN tpc : tpc[t] \in {"idle", "done"}) =>
    \A sid \in 1..Len(chat_sessions) :
      LET rows == RowsAsc(sid)
      IN \A k \in 1..Len(rows) :
           /\ messages[rows[k]].role = IF k % 2 = 1 THEN "user" ELSE "ai"
           /\ k % 2 = 0 => messages[rows[k - 1]].turn = messages[rows[k]].turn

\* C31 (as stated): the storage connection a chat turn opened is closed by
\* the time the turn returns, on the success path and on every failure path.
C31_ConnectionClosedOnReturn ==
  \A t \in Turns : tpc[t] = "done" => conn[t] # "open"

====
